---- MODULE Spec2Model ----
(***************************************************************************)
(* The Marketplace ledger of src/hardhat/contracts/Marketplace.sol as a    *)
(* state machine.  One step is one transaction: a call of createMarketItem,*)
(* createMarketSale or cancelMarketItem by an externally owned account.    *)
(* The EVM runs a transaction atomically and rolls every effect back when  *)
(* it reverts, so a reverted call changes nothing but lastCall, the        *)
(* receipt of the most recent transaction.  Between transactions the       *)
(* nonReentrant guard is released; address.transfer and ERC-721            *)
(* transferFrom hand no control to the receiver, so no call is nested.     *)
(*                                                                         *)
(* Amounts are counted in units of the listing fee (1 unit = 0.045 ether). *)
(* The token collections are standard ERC-721 contracts; NFT.sol itself is *)
(* not part of the sources, so their behaviour follows the collaborator    *)
(* contract of the specification (transfer custody, recorded creator).     *)
(*                                                                         *)
(* Three further specifications share the ledger: SpecGuard runs one       *)
(* transaction step by step through the nonReentrant guard, SpecWeb3 is    *)
(* the React Web3 provider with the loadNFTs cache, its async functions    *)
(* suspended at their awaits, and SpecClient is the useNFT hook with the   *)
(* page handlers that call it.                                             *)
(***************************************************************************)
EXTENDS Integers, Sequences, FiniteSets, TLC

\* ------------------------------------------------------------------ bounds
\* createMarketItem is offered only while fewer than MaxItems items exist.
MaxItems == 2
\* Ether every account starts with, in listing-fee units.
InitBalance == 4
\* Calls back into the marketplace explored inside one transaction.
MaxAttempts == 3

\* --------------------------------------------------------------- addresses
Zero == "0x0"                      \* address(0)
Mkt == "marketplace"               \* address(this)
Deployer == "deployer"             \* msg.sender of the constructor
Callers == {"deployer", "alice", "bob"}
Accounts == Callers \cup {Mkt, Zero}
Collections == {"nftA", "nftB"}
TokenIds == {0, 1}
\* Item ids a caller may pass: 0 and ids above the counter were never created.
ItemIds == 0..MaxItems
\* Prices and attached payments a caller may pass.
Prices == {0, 2}
Values == {0, 1, 2}

\* ------------------------------------------------------------------- state
VARIABLES
    marketItemIdCounter,       \* uint256 _marketItemIdCounter
    tokensSoldCounter,         \* uint256 _tokensSoldCounter
    tokensCanceledCounter,     \* uint256 _tokensCanceledCounter
    marketItemIdToMarketItem,  \* mapping(uint256 => MarketItem)
    tokenHolder,               \* ownerOf of every collection
    balance,                   \* ether balance of every account
    lastCall                   \* receipt of the most recent transaction

\* The reentrancy guard and the calls in progress inside one transaction:
\* status is the guard's flag, callStack the marketplace operations whose
\* bodies are executing (innermost last), attempts the number of calls back
\* into the marketplace made so far from inside the transaction.
VARIABLES status, callStack, attempts

\* The Web3 provider of the front end (web3-provider.tsx) and the NFT cache
\* of the useNFT hook.
VARIABLES
    account,               \* useState: the connected address or null
    signer,                \* useState: the signer's address or null
    isConnected,           \* useState
    marketplaceContract,   \* useState: null or the signer the handle is bound to
    nftContract,           \* useState: null or the signer the handle is bound to
    manuallyDisconnected,  \* useRef
    connectionChecked,     \* useRef
    wallet,                \* the account the wallet exposes, or null
    tasks,                 \* the async functions suspended at an await
    nftCache,              \* module-level cache of loadNFTs, or null
    now                    \* Date.now()

web3Vars == <<account, signer, isConnected, marketplaceContract, nftContract,
              manuallyDisconnected, connectionChecked, wallet, tasks,
              nftCache, now>>

\* The pages of the front end: the home page's list, the My NFTs page's
\* list and the create page's flags, with what the hook last did.
VARIABLES
    homeNfts,     \* home page: tokenIds in the nfts state
    myNfts,       \* My NFTs page: isListed of each tokenId in the nfts state
    success,      \* create page: useState success
    pending,      \* create page: useState pending
    error,        \* the page's error state, or null
    lastAction    \* what the last page handler asked for and how it ended

pageVars == <<homeNfts, myNfts, success, pending, error, lastAction>>

clientVars == <<web3Vars, pageVars>>

vars == <<marketItemIdCounter, tokensSoldCounter, tokensCanceledCounter,
          marketItemIdToMarketItem, tokenHolder, balance, lastCall,
          status, callStack, attempts, web3Vars, pageVars>>

ledger == <<marketItemIdCounter, tokensSoldCounter, tokensCanceledCounter,
            marketItemIdToMarketItem, tokenHolder, balance>>

guardVars == <<status, callStack, attempts>>

\* Between transactions the guard is open and no operation is in progress.
GuardInit ==
    /\ status = "NOT_ENTERED"
    /\ callStack = <<>>
    /\ attempts = 0

\* null of the front end.
Null == "null"

\* let nftCache: NFTCache | null = null
NullCache ==
    [nfts |-> [owner |-> Null, tokenIds |-> {}], timestamp |-> 0,
     account |-> Null]

\* The accounts of the wallet in the browser.
WalletAccounts == {"alice", "bob"}

\* The provider as mounted, nothing connected, nothing cached, the wallet
\* exposing no account yet.
Web3Init ==
    /\ account = Null
    /\ signer = Null
    /\ isConnected = FALSE
    /\ marketplaceContract = Null
    /\ nftContract = Null
    /\ manuallyDisconnected = FALSE
    /\ connectionChecked = FALSE
    /\ wallet = Null
    /\ tasks = {}
    /\ nftCache = NullCache
    /\ now = 0

\* The pages before anything was loaded or submitted.
PageInit ==
    /\ homeNfts = {}
    /\ myNfts = [t \in {} |-> FALSE]
    /\ success = FALSE
    /\ pending = FALSE
    /\ error = Null
    /\ lastAction = [fn |-> "mount", submitted |-> FALSE, marketItemId |-> 0,
                     outcome |-> "ok"]

\* address payable private immutable owner, set by the constructor
owner == Deployer

\* uint256 private listingFee = 0.045 ether (one unit)
listingFee == 1

\* The value of a mapping slot that was never written: every field zero.
emptyMarketItem ==
    [marketItemId |-> 0, nftContractAddress |-> Zero, tokenId |-> 0,
     creator |-> Zero, seller |-> Zero, owner |-> Zero, price |-> 0,
     sold |-> FALSE, canceled |-> FALSE]

\* ------------------------------------------------- the token collections
\* The tokens that were minted: 0 and 1 of nftA by alice, 1 of nftB by bob.
minted == {<<"nftA", 0>>, <<"nftA", 1>>, <<"nftB", 1>>}

\* The recorded creator of a token; an unminted token has none.
getTokenCreatorById(nft, tokenId) ==
    IF <<nft, tokenId>> \notin minted THEN Zero
    ELSE IF nft = "nftA" THEN "alice" ELSE "bob"

\* ownerOf, for any address a caller may name as the collection.
holderOf(holders, nft, tokenId) ==
    IF nft \in Collections /\ tokenId \in TokenIds
      THEN holders[nft][tokenId] ELSE Zero

\* ERC-721 transferFrom(from, to, tokenId) called by the marketplace: the
\* collection accepts iff `from` holds the token and the marketplace is the
\* holder or was approved by the holder (`approved`, the holder's choice).
transferFromOk(holders, nft, from, to, tokenId, approved) ==
    /\ holders[nft][tokenId] = from
    /\ to # Zero
    /\ (from = Mkt \/ approved)

transferFrom(holders, nft, to, tokenId) ==
    [holders EXCEPT ![nft][tokenId] = to]

\* address.transfer(amount): moves ether, reverts when the payer lacks it.
transferOk(bal, from, amount) == bal[from] >= amount

transfer(bal, from, to, amount) ==
    [a \in DOMAIN bal |->
        bal[a] - (IF a = from THEN amount ELSE 0)
               + (IF a = to THEN amount ELSE 0)]

\* The receipt of a transaction.
Receipt(op, err, ret) ==
    [op |-> op, reverted |-> err # "", error |-> err, ret |-> ret]

Reverts(op, err) ==
    /\ lastCall' = Receipt(op, err, 0)
    /\ UNCHANGED ledger

\* ------------------------------------------------------------------- Init
Init ==
    /\ marketItemIdCounter = 0
    /\ tokensSoldCounter = 0
    /\ tokensCanceledCounter = 0
    /\ marketItemIdToMarketItem = [i \in ItemIds |-> emptyMarketItem]
    /\ tokenHolder = [c \in Collections |->
                        [t \in TokenIds |-> getTokenCreatorById(c, t)]]
    /\ balance = [a \in Accounts |-> IF a \in Callers THEN InitBalance ELSE 0]
    /\ lastCall = Receipt("constructor", "", 0)
    /\ GuardInit
    /\ Web3Init
    /\ PageInit

\* ------------------------------------------------------- createMarketItem
\* A faulty createRequire: the price check is missing.
createRequireWithoutPriceCheck(price, value) ==
    IF value # listingFee THEN "Price must be equal to listing price"
    ELSE ""

\* require(price > 0) and require(msg.value == listingFee)
createRequire(price, value) ==
    IF ~(price > 0) THEN "Price must be at least 1 wei"
    ELSE IF value # listingFee THEN "Price must be equal to listing price"
    ELSE ""

\* uint256 marketItemId = ++_marketItemIdCounter
nextMarketItemId == marketItemIdCounter + 1

\* A faulty newMarketItem: the owner field is set to the caller.
newMarketItemOwnedBySender(marketItemId, nft, tokenId, creator, sender, price) ==
    [marketItemId |-> marketItemId, nftContractAddress |-> nft,
     tokenId |-> tokenId, creator |-> creator, seller |-> sender,
     owner |-> sender, price |-> price, sold |-> FALSE, canceled |-> FALSE]

\* A faulty newMarketItem: the id from before the increment is stored.
newMarketItemWithStaleId(marketItemId, nft, tokenId, creator, sender, price) ==
    [marketItemId |-> marketItemId - 1, nftContractAddress |-> nft,
     tokenId |-> tokenId, creator |-> creator, seller |-> sender,
     owner |-> Zero, price |-> price, sold |-> FALSE, canceled |-> FALSE]

\* The struct written at lines 98-108.
newMarketItem(marketItemId, nft, tokenId, creator, sender, price) ==
    [marketItemId |-> marketItemId, nftContractAddress |-> nft,
     tokenId |-> tokenId, creator |-> creator, seller |-> sender,
     owner |-> Zero, price |-> price, sold |-> FALSE, canceled |-> FALSE]

\* A faulty createMarketItemError: the outcome of the custody transfer is
\* ignored.
createMarketItemErrorIgnoringTransfer(sender, value, nft, tokenId, price, approved) ==
    createRequire(price, value)

\* Why a createMarketItem call reverts; "" when it does not.
createMarketItemError(sender, value, nft, tokenId, price, approved) ==
    IF createRequire(price, value) # ""
      THEN createRequire(price, value)
    ELSE IF ~transferFromOk(tokenHolder, nft, sender, Mkt, tokenId, approved)
      THEN "ERC721: transfer rejected"
    ELSE ""

createMarketItem(sender, value, nft, tokenId, price, approved) ==
    /\ marketItemIdCounter < MaxItems
    /\ balance[sender] >= value
    /\ LET id == nextMarketItemId
           err == createMarketItemError(sender, value, nft, tokenId, price,
                                        approved)
       IN IF err # "" THEN Reverts("createMarketItem", err)
          ELSE
            /\ marketItemIdCounter' = id
            /\ marketItemIdToMarketItem' =
                 [marketItemIdToMarketItem EXCEPT ![id] =
                    newMarketItem(id, nft, tokenId,
                                  getTokenCreatorById(nft, tokenId),
                                  sender, price)]
            /\ tokenHolder' = transferFrom(tokenHolder, nft, Mkt, tokenId)
            /\ balance' = transfer(balance, sender, Mkt, value)
            /\ lastCall' = Receipt("createMarketItem", "", id)
            /\ UNCHANGED <<tokensSoldCounter, tokensCanceledCounter>>

\* ------------------------------------------------------- cancelMarketItem
\* A faulty cancelRequire: the caller is not compared with the seller.
cancelRequireWithoutSellerCheck(item, sender) ==
    IF ~(item.tokenId > 0) THEN "Market item has to exist"
    ELSE ""

\* require(tokenId > 0) and require(seller == msg.sender)
cancelRequire(item, sender) ==
    IF ~(item.tokenId > 0) THEN "Market item has to exist"
    ELSE IF item.seller # sender THEN "You are not the seller"
    ELSE ""

\* Lines 140-141.
canceledItem(item, sender) ==
    [item EXCEPT !.owner = sender, !.canceled = TRUE]

\* Why a cancelMarketItem call reverts; "" when it does not.
cancelMarketItemError(sender, nft, marketItemId) ==
    LET item == marketItemIdToMarketItem[marketItemId]
    IN IF cancelRequire(item, sender) # ""
         THEN cancelRequire(item, sender)
       ELSE IF ~transferFromOk(tokenHolder, nft, Mkt, sender, item.tokenId,
                               FALSE)
         THEN "ERC721: transfer rejected"
       ELSE ""

cancelMarketItem(sender, nft, marketItemId) ==
    LET item == marketItemIdToMarketItem[marketItemId]
        tokenId == item.tokenId
        err == cancelMarketItemError(sender, nft, marketItemId)
    IN IF err # "" THEN Reverts("cancelMarketItem", err)
       ELSE
         /\ tokenHolder' = transferFrom(tokenHolder, nft, sender, tokenId)
         /\ marketItemIdToMarketItem' =
              [marketItemIdToMarketItem EXCEPT
                 ![marketItemId] = canceledItem(item, sender)]
         /\ tokensCanceledCounter' = tokensCanceledCounter + 1
         /\ lastCall' = Receipt("cancelMarketItem", "", 0)
         /\ UNCHANGED <<marketItemIdCounter, tokensSoldCounter, balance>>

\* ------------------------------------------------------- createMarketSale
\* A faulty saleRequire: any payment is accepted.
saleRequireAcceptingAnyPayment(item, value) == ""

\* require(msg.value == price)
saleRequire(item, value) ==
    IF value # item.price
      THEN "Please submit the asking price in order to continue"
    ELSE ""

\* A faulty soldItem: the owner field is not set.
soldItemKeepingOwner(item, sender) ==
    [item EXCEPT !.sold = TRUE]

\* A faulty soldItem: the buyer is also recorded as the seller.
soldItemReassigningSeller(item, sender) ==
    [item EXCEPT !.owner = sender, !.seller = sender, !.sold = TRUE]

\* Lines 178-179.
soldItem(item, sender) ==
    [item EXCEPT !.owner = sender, !.sold = TRUE]

\* A faulty createMarketSaleError: the outcome of the token transfer is
\* ignored.
createMarketSaleErrorIgnoringTransfer(sender, value, nft, marketItemId) ==
    LET item == marketItemIdToMarketItem[marketItemId]
        b0 == transfer(balance, sender, Mkt, value)
        b1 == transfer(b0, Mkt, item.seller, value)
    IN IF saleRequire(item, value) # ""
         THEN saleRequire(item, value)
       ELSE IF ~transferOk(b1, Mkt, listingFee)
         THEN "insufficient balance"
       ELSE ""

\* Why a createMarketSale call reverts; "" when it does not.  The fee is
\* paid out of what the contract holds once msg.value went to the seller.
createMarketSaleError(sender, value, nft, marketItemId) ==
    LET item == marketItemIdToMarketItem[marketItemId]
        b0 == transfer(balance, sender, Mkt, value)
        b1 == transfer(b0, Mkt, item.seller, value)
    IN IF saleRequire(item, value) # ""
         THEN saleRequire(item, value)
       ELSE IF ~transferFromOk(tokenHolder, nft, Mkt, sender, item.tokenId,
                               FALSE)
         THEN "ERC721: transfer rejected"
       ELSE IF ~transferOk(b1, Mkt, listingFee)
         THEN "insufficient balance"
       ELSE ""

createMarketSale(sender, value, nft, marketItemId) ==
    /\ balance[sender] >= value
    /\ LET item == marketItemIdToMarketItem[marketItemId]
           price == item.price
           tokenId == item.tokenId
           \* msg.value is credited to the contract when the call starts
           b0 == transfer(balance, sender, Mkt, value)
           \* seller.transfer(msg.value)
           b1 == transfer(b0, Mkt, item.seller, value)
           \* payable(owner).transfer(listingFee)
           b2 == transfer(b1, Mkt, owner, listingFee)
           err == createMarketSaleError(sender, value, nft, marketItemId)
       IN IF err # "" THEN Reverts("createMarketSale", err)
          ELSE
            /\ marketItemIdToMarketItem' =
                 [marketItemIdToMarketItem EXCEPT
                    ![marketItemId] = soldItem(item, sender)]
            /\ tokenHolder' = transferFrom(tokenHolder, nft, sender, tokenId)
            /\ tokensSoldCounter' = tokensSoldCounter + 1
            /\ balance' = b2
            /\ lastCall' = Receipt("createMarketSale", "", 0)
            /\ UNCHANGED <<marketItemIdCounter, tokensCanceledCounter>>

\* ---------------------------------------------- fetchAvailableMarketItems
\* Line 199: checked uint256 subtraction, which reverts on underflow.
availableItemsCount ==
    marketItemIdCounter - tokensSoldCounter - tokensCanceledCounter

\* The items the loop of lines 203-208 writes, in the order it writes them.
RECURSIVE scanAvailable(_)
scanAvailable(n) ==
    IF n = 0 THEN <<>>
    ELSE IF marketItemIdToMarketItem[n].owner # Zero THEN scanAvailable(n - 1)
    ELSE Append(scanAvailable(n - 1), marketItemIdToMarketItem[n])

\* The view call: reverted on underflow of the count or on a write past the
\* end of the fixed-size array; slots the loop never writes stay empty.
fetchAvailableMarketItems ==
    LET found == scanAvailable(marketItemIdCounter)
    IN IF availableItemsCount < 0 \/ Len(found) > availableItemsCount
         THEN [reverted |-> TRUE, items |-> <<>>]
       ELSE [reverted |-> FALSE,
             items |-> found \o [k \in 1..(availableItemsCount - Len(found))
                                   |-> emptyMarketItem]]

\* ------------------------------------------------------------------- Next
Next ==
    \/ \E sender \in Callers, value \in Values, nft \in Collections,
          tokenId \in TokenIds, price \in Prices, approved \in BOOLEAN :
          /\ createMarketItem(sender, value, nft, tokenId, price, approved)
          /\ UNCHANGED <<guardVars, clientVars>>
    \/ \E sender \in Callers, value \in Values, nft \in Collections,
          marketItemId \in ItemIds :
          /\ createMarketSale(sender, value, nft, marketItemId)
          /\ UNCHANGED <<guardVars, clientVars>>
    \/ \E sender \in Callers, nft \in Collections, marketItemId \in ItemIds :
          /\ cancelMarketItem(sender, nft, marketItemId)
          /\ UNCHANGED <<guardVars, clientVars>>

Spec == Init /\ [][Next]_vars

\* ----------------------------------------------- front end: Web3 provider
\* Async functions in flight at once.
MaxTasks == 2
\* Clock ticks explored.
MaxTicks == 2
\* Milliseconds between two readings of the clock.
TickMs == 15000

\* const CACHE_EXPIRY_MS = 30000
CACHE_EXPIRY_MS == 30000

\* An async function suspended at an await: the function, the await it is
\* at, the accounts the wallet returned, the signer obtained, the values a
\* loadNFTs captured when it was called, and whether the handler started
\* while manuallyDisconnected was set.
Task(fn, pc, accounts, sgn, contract, started, afterDisconnect) ==
    [fn |-> fn, pc |-> pc, accounts |-> accounts, signer |-> sgn,
     contract |-> contract, started |-> started,
     afterDisconnect |-> afterDisconnect]

\* The useEffect of useNFT on [account] (part_000 lines 24-28), run with the
\* account a; the cache that remains.
cacheAfterAccountChange(cache, a) ==
    IF a # Null /\ cache # NullCache /\ cache.account # a THEN NullCache
    ELSE cache

\* Leaves everything but the provider's own state as it is.
onlyProvider ==
    UNCHANGED <<ledger, lastCall, guardVars, pageVars, now>>

\* connect() up to its first await (lines 107-135).
connect ==
    /\ Cardinality(tasks) < MaxTasks
    /\ manuallyDisconnected' = FALSE
    /\ tasks' = tasks \cup {Task("connect", "requestAccounts", Null, Null,
                                  Null, 0, FALSE)}
    /\ UNCHANGED <<account, signer, isConnected, marketplaceContract,
                   nftContract, connectionChecked, wallet, nftCache>>
    /\ onlyProvider

\* disconnect() (lines 169-177).
disconnect ==
    /\ manuallyDisconnected' = TRUE
    /\ account' = Null
    /\ signer' = Null
    /\ isConnected' = FALSE
    /\ marketplaceContract' = Null
    /\ nftContract' = Null
    /\ UNCHANGED <<connectionChecked, wallet, tasks, nftCache>>
    /\ onlyProvider

\* The wallet answers wallet_requestPermissions and eth_requestAccounts of a
\* connect() (lines 122-139): the user picks an account, or refuses and the
\* catch block ends the call.
RequestAccounts(t) ==
    /\ t \in tasks /\ t.pc = "requestAccounts"
    /\ \/ \E a \in WalletAccounts :
            /\ wallet' = a
            /\ tasks' = (tasks \ {t}) \cup
                          {[t EXCEPT !.pc = "getSigner", !.accounts = a]}
       \/ /\ tasks' = tasks \ {t}
          /\ UNCHANGED wallet
    /\ UNCHANGED <<account, signer, isConnected, marketplaceContract,
                   nftContract, manuallyDisconnected, connectionChecked,
                   nftCache>>
    /\ onlyProvider

\* provider.getSigner() resolves in connect (143-151), checkConnection
\* (202-212) or handleAccountsChanged (245-252): the state is set and
\* initializeContracts starts; a wallet exposing no account makes it throw.
GetSigner(t) ==
    /\ t \in tasks /\ t.pc = "getSigner"
    /\ IF wallet = Null
         THEN /\ tasks' = tasks \ {t}
              /\ UNCHANGED <<account, signer, isConnected, nftCache>>
       ELSE /\ signer' = wallet
            /\ account' = t.accounts
            /\ isConnected' = TRUE
            /\ nftCache' = cacheAfterAccountChange(nftCache, t.accounts)
            /\ tasks' = (tasks \ {t}) \cup
                          {[t EXCEPT !.pc = "initializeContracts",
                                     !.signer = wallet]}
    /\ UNCHANGED <<marketplaceContract, nftContract, manuallyDisconnected,
                   connectionChecked, wallet>>
    /\ onlyProvider

\* initializeContracts(signer) finishes (lines 52-105): the handles are set
\* for the signer it was called with, or cleared when no bytecode is found,
\* or left alone when it throws.
InitializeContracts(t) ==
    /\ t \in tasks /\ t.pc = "initializeContracts"
    /\ tasks' = tasks \ {t}
    /\ \/ /\ marketplaceContract' = t.signer
          /\ nftContract' = t.signer
       \/ /\ marketplaceContract' = Null
          /\ nftContract' = Null
       \/ UNCHANGED <<marketplaceContract, nftContract>>
    /\ UNCHANGED <<account, signer, isConnected, manuallyDisconnected,
                   connectionChecked, wallet, nftCache>>
    /\ onlyProvider

\* checkConnection of the mount effect (lines 180-222) up to the answer of
\* eth_accounts.
CheckConnection ==
    /\ ~connectionChecked
    /\ Cardinality(tasks) < MaxTasks
    /\ connectionChecked' = TRUE
    /\ IF ~manuallyDisconnected /\ wallet # Null
         THEN tasks' = tasks \cup {Task("checkConnection", "getSigner", wallet,
                                        Null, Null, 0, FALSE)}
       ELSE UNCHANGED tasks
    /\ UNCHANGED <<account, signer, isConnected, marketplaceContract,
                   nftContract, manuallyDisconnected, wallet, nftCache>>
    /\ onlyProvider

\* The wallet switches to account a (null: it locks or revokes access) and
\* emits accountsChanged; handleAccountsChanged (lines 234-258) runs.
AccountsChanged(a) ==
    /\ a # wallet
    /\ (a # Null /\ a # account) => Cardinality(tasks) < MaxTasks
    /\ wallet' = a
    /\ IF a = Null
         THEN /\ manuallyDisconnected' = TRUE
              /\ account' = Null
              /\ signer' = Null
              /\ isConnected' = FALSE
              /\ marketplaceContract' = Null
              /\ nftContract' = Null
              /\ UNCHANGED tasks
       ELSE /\ IF a # account
                 THEN tasks' = tasks \cup
                        {Task("handleAccountsChanged", "getSigner", a, Null,
                              Null, 0, manuallyDisconnected)}
               ELSE UNCHANGED tasks
            /\ UNCHANGED <<account, signer, isConnected, marketplaceContract,
                           nftContract, manuallyDisconnected>>
    /\ UNCHANGED <<connectionChecked, nftCache>>
    /\ onlyProvider

\* The wallet emits connect; handleConnect (lines 264-273) runs.
WalletConnect ==
    IF manuallyDisconnected \/ isConnected
      THEN UNCHANGED vars
    ELSE connect

\* The wallet emits disconnect; handleDisconnect (lines 275-278) runs.
WalletDisconnect == disconnect

\* ------------------------------------------------ front end: loadNFTs cache
\* The collection the front end is configured with.
NFT_COLLECTION_ADDRESS == "nftA"

\* nftContract.getTokensOwnedByMe() through a handle bound to signer sgn:
\* the tokens of the collection that sgn holds, with whose they are.
getTokensOwnedByMe(sgn) ==
    [owner |-> sgn,
     tokenIds |-> {t \in TokenIds :
                     holderOf(tokenHolder, NFT_COLLECTION_ADDRESS, t) = sgn}]

\* The test of part_000 lines 139-144.
cacheHit(forceRefresh) ==
    /\ ~forceRefresh
    /\ nftCache # NullCache
    /\ nftCache.account = account
    /\ nftCache.timestamp + CACHE_EXPIRY_MS > now

\* loadNFTs(forceRefresh) up to its first await (part_000 lines 134-154):
\* nothing without handles or account, the cached list on a hit, else a load
\* starts with the account, the handle and the time of this call.
loadNFTs(forceRefresh) ==
    /\ IF marketplaceContract = Null \/ nftContract = Null \/ account = Null
         THEN UNCHANGED tasks
       ELSE IF cacheHit(forceRefresh)
         THEN UNCHANGED tasks
       ELSE /\ Cardinality(tasks) < MaxTasks
            /\ tasks' = tasks \cup {Task("loadNFTs", "getTokensOwnedByMe",
                                          account, Null, nftContract, now,
                                          FALSE)}
    /\ UNCHANGED <<account, signer, isConnected, marketplaceContract,
                   nftContract, manuallyDisconnected, connectionChecked,
                   wallet, nftCache>>
    /\ onlyProvider

\* A load finishes (part_000 lines 154-296): the cache is written with the
\* list read through the captured handle, the captured account and the time
\* the load started; a failed load writes nothing.
LoadNFTsDone(t) ==
    /\ t \in tasks /\ t.fn = "loadNFTs"
    /\ tasks' = tasks \ {t}
    /\ \/ nftCache' = [nfts |-> getTokensOwnedByMe(t.contract),
                        timestamp |-> t.started, account |-> t.accounts]
       \/ UNCHANGED nftCache
    /\ UNCHANGED <<account, signer, isConnected, marketplaceContract,
                   nftContract, manuallyDisconnected, connectionChecked,
                   wallet>>
    /\ onlyProvider

\* Time passes.
Tick ==
    /\ now < MaxTicks * TickMs
    /\ now' = now + TickMs
    /\ UNCHANGED <<ledger, lastCall, guardVars, pageVars, account, signer,
                   isConnected, marketplaceContract, nftContract,
                   manuallyDisconnected, connectionChecked, wallet, tasks,
                   nftCache>>

Web3Next ==
    \/ connect
    \/ disconnect
    \/ \E t \in tasks : RequestAccounts(t)
    \/ \E t \in tasks : GetSigner(t)
    \/ \E t \in tasks : InitializeContracts(t)
    \/ CheckConnection
    \/ \E a \in WalletAccounts \cup {Null} : AccountsChanged(a)
    \/ WalletConnect
    \/ WalletDisconnect
    \/ \E forceRefresh \in BOOLEAN : loadNFTs(forceRefresh)
    \/ \E t \in tasks : LoadNFTsDone(t)
    \/ Tick

SpecWeb3 == Init /\ [][Web3Next]_vars

\* ------------------------------------------ one transaction, step by step
\* The operations of the contract that change state.
Operations == {"createMarketItem", "createMarketSale", "cancelMarketItem"}

\* A faulty nonReentrant: only the payable operations carry the modifier.
nonReentrantOnPayableOnly == {"createMarketItem", "createMarketSale"}

\* The operations declared nonReentrant (lines 89, 132 and 173).
nonReentrant == {"createMarketItem", "createMarketSale", "cancelMarketItem"}

\* The calls an operation makes to other contracts, in program order.
externalCalls(op) ==
    IF op = "createMarketItem" THEN <<"getTokenCreatorById", "transferFrom">>
    ELSE IF op = "cancelMarketItem" THEN <<"transferFrom">>
    ELSE <<"seller.transfer", "transferFrom", "owner.transfer">>

\* The modifier's entry check: "" when the operation may start.
nonReentrantBefore(op) ==
    IF op \in nonReentrant /\ status = "ENTERED"
      THEN "ReentrancyGuardReentrantCall"
    ELSE ""

\* A frame of an operation that has just started; statusBefore is what a
\* revert of the frame restores.
enteredFrame(op) ==
    [op |-> op, calls |-> 0, inCallee |-> FALSE, statusBefore |-> status]

top == callStack[Len(callStack)]

popped == SubSeq(callStack, 1, Len(callStack) - 1)

\* An account sends a transaction calling op.
Call(op) ==
    /\ callStack = <<>>
    /\ nonReentrantBefore(op) = ""
    /\ status' = IF op \in nonReentrant THEN "ENTERED" ELSE status
    /\ callStack' = <<enteredFrame(op)>>
    /\ attempts' = 0
    /\ UNCHANGED <<ledger, lastCall>>

\* The innermost operation reaches its next external call; control passes
\* to the called contract.
ExternalCall ==
    /\ callStack # <<>>
    /\ ~top.inCallee
    /\ top.calls < Len(externalCalls(top.op))
    /\ callStack' = Append(popped, [top EXCEPT !.calls = @ + 1,
                                               !.inCallee = TRUE])
    /\ UNCHANGED <<ledger, lastCall, status, attempts>>

\* The called contract calls back into operation op of the marketplace:
\* rejected by the modifier, or a further operation starts.
Reenter(op) ==
    /\ callStack # <<>>
    /\ top.inCallee
    /\ attempts < MaxAttempts
    /\ attempts' = attempts + 1
    /\ IF nonReentrantBefore(op) # ""
         THEN /\ lastCall' = Receipt(op, nonReentrantBefore(op), 0)
              /\ UNCHANGED <<ledger, status, callStack>>
       ELSE /\ status' = IF op \in nonReentrant THEN "ENTERED" ELSE status
            /\ callStack' = Append(callStack, enteredFrame(op))
            /\ UNCHANGED <<ledger, lastCall>>

\* The called contract returns to the innermost operation.
Return ==
    /\ callStack # <<>>
    /\ top.inCallee
    /\ callStack' = Append(popped, [top EXCEPT !.inCallee = FALSE])
    /\ UNCHANGED <<ledger, lastCall, status, attempts>>

\* The innermost operation runs to its end; the modifier reopens the guard.
Finish ==
    /\ callStack # <<>>
    /\ ~top.inCallee
    /\ top.calls = Len(externalCalls(top.op))
    /\ status' = IF top.op \in nonReentrant THEN "NOT_ENTERED" ELSE status
    /\ callStack' = popped
    /\ lastCall' = Receipt(top.op, "", 0)
    /\ UNCHANGED <<ledger, attempts>>

\* The innermost operation reverts (a failed require, or a revert of the
\* called contract that it does not catch): its writes are undone.
Revert ==
    /\ callStack # <<>>
    /\ status' = top.statusBefore
    /\ callStack' = popped
    /\ lastCall' = Receipt(top.op, "reverted", 0)
    /\ UNCHANGED <<ledger, attempts>>

GuardNext ==
    \/ \E op \in Operations : Call(op) /\ UNCHANGED clientVars
    \/ ExternalCall /\ UNCHANGED clientVars
    \/ \E op \in Operations : Reenter(op) /\ UNCHANGED clientVars
    \/ Return /\ UNCHANGED clientVars
    \/ Finish /\ UNCHANGED clientVars
    \/ Revert /\ UNCHANGED clientVars

SpecGuard == Init /\ [][GuardNext]_vars

\* ============================================================== properties
\* Helpers of the properties below.
ItemRange == 1..marketItemIdCounter

isActive(item) == item.owner = Zero /\ ~item.sold /\ ~item.canceled

\* The ids fetchAvailableMarketItems returns; none when the call reverts.
availableIds ==
    LET r == fetchAvailableMarketItems
    IN IF r.reverted THEN {}
       ELSE {r.items[k].marketItemId : k \in 1..Len(r.items)}

succeeded(op) == lastCall'.op = op /\ ~lastCall'.reverted

\* C1: in every reachable state fetchAvailableMarketItems does not revert and
\* the length of its result is items created - sold - canceled, which is the
\* number of stored items whose owner is the zero address.
C1_AvailableLengthIsCreatedMinusTerminal ==
    LET r == fetchAvailableMarketItems
    IN /\ ~r.reverted
       /\ Len(r.items) = availableItemsCount
       /\ availableItemsCount =
            Cardinality({i \in ItemRange :
                           marketItemIdToMarketItem[i].owner = Zero})

\* C2: every successful createMarketItem call had price > 0 and a payment
\* equal to the listing fee, returns the previous counter + 1, and stores
\* under that id a record with seller = caller, owner = zero address,
\* sold = canceled = false and the given tokenId and price.
C2_CreateReturnsNextIdAndStoresRecord ==
    [][succeeded("createMarketItem") =>
        \A sender \in Callers, value \in Values, nft \in Collections,
           tokenId \in TokenIds, price \in Prices, approved \in BOOLEAN :
           createMarketItem(sender, value, nft, tokenId, price, approved) =>
             LET id == marketItemIdCounter + 1
                 item == marketItemIdToMarketItem'[id]
             IN /\ price > 0 /\ value = listingFee
                /\ lastCall'.ret = id
                /\ marketItemIdCounter' = id
                /\ item.marketItemId = id
                /\ item.seller = sender
                /\ item.owner = Zero
                /\ item.sold = FALSE /\ item.canceled = FALSE
                /\ item.tokenId = tokenId /\ item.price = price
                /\ item.nftContractAddress = nft]_vars

\* C2 witness: a second listing was created and returned id 2.
C2_Witness ==
    /\ lastCall.op = "createMarketItem" /\ ~lastCall.reverted
    /\ lastCall.ret = 2
    /\ isActive(marketItemIdToMarketItem[2])

\* C3: a createMarketItem call with price = 0 or with a payment other than
\* the listing fee is rejected, and a rejected createMarketItem leaves the
\* counters, the item mapping, token custody and all balances unchanged.
C3_BadCreateRejectedWithoutChange ==
    [][lastCall'.op = "createMarketItem" =>
        /\ lastCall'.reverted => UNCHANGED ledger
        /\ ~lastCall'.reverted =>
             \A sender \in Callers, value \in Values, nft \in Collections,
                tokenId \in TokenIds, price \in Prices, approved \in BOOLEAN :
                (price = 0 \/ value # listingFee) =>
                  ~createMarketItem(sender, value, nft, tokenId, price,
                                    approved)]_vars

\* C3 witness: with one item listed, a createMarketItem call was rejected for
\* its payment.
C3_Witness ==
    /\ marketItemIdCounter = 1
    /\ lastCall.op = "createMarketItem"
    /\ lastCall.error = "Price must be equal to listing price"

\* C4: after a successful createMarketSale on item i, the available list
\* does not contain i, the sold counter grew by exactly one, and every other
\* item is in the available list iff it was before.
C4_SaleRemovesOnlyThatItem ==
    [][succeeded("createMarketSale") =>
        \A sender \in Callers, value \in Values, nft \in Collections,
           id \in ItemRange :
           createMarketSale(sender, value, nft, id) =>
             /\ id \notin availableIds'
             /\ tokensSoldCounter' = tokensSoldCounter + 1
             /\ \A j \in ItemRange \ {id} :
                  (j \in availableIds) <=> (j \in availableIds')]_vars

\* C5: after a successful cancelMarketItem on item i, the available list
\* does not contain i, the canceled counter grew by exactly one, and the
\* token of item i is held by the seller of item i.
C5_CancelReturnsTokenToSeller ==
    [][succeeded("cancelMarketItem") =>
        \A sender \in Callers, nft \in Collections, id \in ItemRange :
           cancelMarketItem(sender, nft, id) =>
             LET item == marketItemIdToMarketItem[id]
             IN /\ id \notin availableIds'
                /\ tokensCanceledCounter' = tokensCanceledCounter + 1
                /\ holderOf(tokenHolder', item.nftContractAddress,
                            item.tokenId) = item.seller]_vars

\* C6: a successful createMarketSale on item i pays the stored seller the
\* price and the fee-beneficiary the listing fee (as balance increases, when
\* buyer, seller and beneficiary are three different accounts), makes the
\* buyer the holder of the item's token, and sets owner = buyer, sold = true.
C6_SalePaysSellerAndDeliversToken ==
    [][succeeded("createMarketSale") =>
        \A sender \in Callers, value \in Values, nft \in Collections,
           id \in ItemRange :
           createMarketSale(sender, value, nft, id) =>
             LET item == marketItemIdToMarketItem[id]
             IN /\ Cardinality({sender, item.seller, owner}) = 3 =>
                     /\ balance'[item.seller] = balance[item.seller] + item.price
                     /\ balance'[owner] = balance[owner] + listingFee
                /\ holderOf(tokenHolder', item.nftContractAddress,
                            item.tokenId) = sender
                /\ marketItemIdToMarketItem'[id].owner = sender
                /\ marketItemIdToMarketItem'[id].sold = TRUE]_vars

\* C7: in every reachable state no stored item is both sold and canceled.
C7_NeverSoldAndCanceled ==
    \A i \in ItemRange :
        ~(marketItemIdToMarketItem[i].sold
          /\ marketItemIdToMarketItem[i].canceled)

\* C8: in every reachable state, for every item id from 1 to the counter,
\* the owner is the zero address iff the item is neither sold nor canceled.
C8_OwnerZeroIffNotTerminal ==
    \A i \in ItemRange :
        LET item == marketItemIdToMarketItem[i]
        IN (item.owner = Zero) <=> (~item.sold /\ ~item.canceled)

\* C8 witness: one item was sold and another was canceled.
C8_Witness ==
    \E i, j \in ItemRange :
        /\ marketItemIdToMarketItem[i].sold
        /\ marketItemIdToMarketItem[i].owner # Zero
        /\ marketItemIdToMarketItem[j].canceled
        /\ ~marketItemIdToMarketItem[j].sold

\* C9: in every reachable state the token of every active listing is held by
\* the Marketplace contract.
C9_ActiveListingTokenInCustody ==
    \A i \in ItemRange :
        LET item == marketItemIdToMarketItem[i]
        IN isActive(item) =>
             holderOf(tokenHolder, item.nftContractAddress, item.tokenId) = Mkt

\* C10: once an item is sold or canceled, every later createMarketSale or
\* cancelMarketItem call on its id is rejected and changes no state.
C10_TerminalItemRejectsSaleAndCancel ==
    [][(lastCall'.op \in {"createMarketSale", "cancelMarketItem"}
        /\ ~lastCall'.reverted) =>
        \A sender \in Callers, value \in Values, nft \in Collections,
           id \in ItemRange :
           (marketItemIdToMarketItem[id].sold
            \/ marketItemIdToMarketItem[id].canceled) =>
             /\ ~createMarketSale(sender, value, nft, id)
             /\ ~cancelMarketItem(sender, nft, id)]_vars

\* C11 as claimed: directly after a successful createMarketSale on item i, a
\* second createMarketSale on i with payment equal to the price succeeds.
C11_SecondSaleSucceeds ==
    [][succeeded("createMarketSale") =>
        \A sender \in Callers, value \in Values, nft \in Collections,
           id \in ItemRange :
           createMarketSale(sender, value, nft, id) =>
             \A second \in Callers :
                createMarketSaleError(second, marketItemIdToMarketItem[id].price,
                                      nft, id)' = ""]_vars

\* C11 as amended: directly after a successful createMarketSale on item i, a
\* second createMarketSale on i naming the same collection, with payment
\* equal to the price, is rejected by the token transfer (the marketplace no
\* longer holds the token), so the seller is paid once.
C11_SecondSaleRejectedByTransfer ==
    [][succeeded("createMarketSale") =>
        \A sender \in Callers, value \in Values, nft \in Collections,
           id \in ItemRange :
           createMarketSale(sender, value, nft, id) =>
             \A second \in Callers :
                createMarketSaleError(second, marketItemIdToMarketItem[id].price,
                                      nft, id)' = "ERC721: transfer rejected"]_vars

\* C11 witness: item 1 was sold once and a further createMarketSale was
\* rejected by the token transfer; the seller holds one payment.
C11_Witness ==
    /\ lastCall.op = "createMarketSale"
    /\ lastCall.error = "ERC721: transfer rejected"
    /\ marketItemIdCounter = 1 /\ tokensSoldCounter = 1
    /\ marketItemIdToMarketItem[1].sold
    /\ \E second \in Callers :
          /\ balance[second] >= marketItemIdToMarketItem[1].price
          /\ createMarketSaleError(second, marketItemIdToMarketItem[1].price,
                                   marketItemIdToMarketItem[1].nftContractAddress,
                                   1) = "ERC721: transfer rejected"

\* C12: a cancelMarketItem call on an id that was never created, or by a
\* caller other than the stored seller, is rejected; a rejected
\* cancelMarketItem changes no state; and an item's canceled flag becomes
\* true only in a successful cancelMarketItem called by its stored seller.
C12_CancelOnlyByStoredSeller ==
    [][/\ lastCall'.op = "cancelMarketItem" =>
            /\ lastCall'.reverted => UNCHANGED ledger
            /\ ~lastCall'.reverted =>
                 \A sender \in Callers, nft \in Collections, id \in ItemIds :
                    cancelMarketItem(sender, nft, id) =>
                      /\ id \in ItemRange
                      /\ sender = marketItemIdToMarketItem[id].seller
       /\ \A id \in ItemIds :
            (~marketItemIdToMarketItem[id].canceled
             /\ marketItemIdToMarketItem'[id].canceled) =>
              /\ succeeded("cancelMarketItem")
              /\ marketItemIdToMarketItem'[id].owner =
                   marketItemIdToMarketItem[id].seller
              /\ marketItemIdToMarketItem[id].seller \in Callers]_vars

\* C12 witness: with an item listed and not canceled, a cancelMarketItem
\* call was rejected because the caller is not the seller.
C12_Witness ==
    /\ lastCall.op = "cancelMarketItem"
    /\ lastCall.error = "You are not the seller"
    /\ marketItemIdCounter >= 1
    /\ \A i \in ItemRange : ~marketItemIdToMarketItem[i].canceled

\* C13: a createMarketSale call whose payment differs from the stored price
\* is rejected, and a rejected createMarketSale leaves the items, the
\* counters, token custody and all balances unchanged.
C13_WrongPaymentRejectedWithoutChange ==
    [][lastCall'.op = "createMarketSale" =>
        /\ lastCall'.reverted => UNCHANGED ledger
        /\ ~lastCall'.reverted =>
             \A sender \in Callers, value \in Values, nft \in Collections,
                id \in ItemIds :
                value # marketItemIdToMarketItem[id].price =>
                  ~createMarketSale(sender, value, nft, id)]_vars

\* C13 witness: with an item listed, a createMarketSale call was rejected
\* for its payment.
C13_Witness ==
    /\ lastCall.op = "createMarketSale"
    /\ lastCall.error = "Please submit the asking price in order to continue"
    /\ marketItemIdCounter >= 1
    /\ isActive(marketItemIdToMarketItem[1])

\* C14: a createMarketSale call on an id that was never created (0 or above
\* the counter) is rejected for every payment, and the sold counter never
\* exceeds the number of items created.
C14_SaleOfMissingItemRejected ==
    [][/\ succeeded("createMarketSale") =>
            \A sender \in Callers, value \in Values, nft \in Collections,
               id \in ItemIds \ ItemRange :
               ~createMarketSale(sender, value, nft, id)
       /\ tokensSoldCounter' <= marketItemIdCounter']_vars

\* ------------------------------------------- getLatestMarketItemByTokenId
\* A faulty lookup: the scan runs upwards and returns the oldest match.
getEarliestMarketItemByTokenId(tokenId) ==
    LET matching == {i \in ItemRange :
                        marketItemIdToMarketItem[i].tokenId = tokenId}
    IN IF matching = {} THEN <<emptyMarketItem, FALSE>>
       ELSE <<marketItemIdToMarketItem[
                 CHOOSE i \in matching : \A j \in matching : i <= j], TRUE>>

\* The loop of lines 156-160 from index i downwards, then lines 163-164.
RECURSIVE latestFrom(_, _)
latestFrom(i, tokenId) ==
    IF ~(i > 0) THEN <<emptyMarketItem, FALSE>>
    ELSE IF marketItemIdToMarketItem[i].tokenId # tokenId
           THEN latestFrom(i - 1, tokenId)
    ELSE <<marketItemIdToMarketItem[i], TRUE>>

\* Lines 153-165: the pair (item, found) the view call returns.
getLatestMarketItemByTokenId(tokenId) ==
    latestFrom(marketItemIdCounter, tokenId)

\* The token ids the lookup is asked for: the listed ones and one never listed.
QueriedTokenIds == TokenIds \cup {2}

\* C15: getLatestMarketItemByTokenId(t) returns (item, true) with item the
\* stored item of the highest id in 1..counter whose tokenId is t, whatever
\* its sold and canceled flags, and (empty item, false) when there is none.
C15_LatestIsHighestIdWithTokenId ==
    \A t \in QueriedTokenIds :
       LET matching == {i \in ItemRange :
                           marketItemIdToMarketItem[i].tokenId = t}
           result == getLatestMarketItemByTokenId(t)
       IN IF matching = {} THEN result = <<emptyMarketItem, FALSE>>
          ELSE /\ result[2] = TRUE
               /\ result[1].marketItemId \in matching
               /\ \A j \in matching : j <= result[1].marketItemId
               /\ result[1] = marketItemIdToMarketItem[result[1].marketItemId]

\* C15 witness: two items share token id 1, the older one still listed and
\* the newer one canceled, and the lookup returns the newer one.
C15_Witness ==
    /\ marketItemIdCounter = 2
    /\ marketItemIdToMarketItem[1].tokenId = 1
    /\ marketItemIdToMarketItem[2].tokenId = 1
    /\ isActive(marketItemIdToMarketItem[1])
    /\ marketItemIdToMarketItem[2].canceled
    /\ getLatestMarketItemByTokenId(1) = <<marketItemIdToMarketItem[2], TRUE>>
    /\ getLatestMarketItemByTokenId(2) = <<emptyMarketItem, FALSE>>

\* C16: after every step the stored marketItemId values are exactly
\* 1..counter, the item under key k carrying marketItemId k and every other
\* key carrying none; no step decreases the counter, and a step that raises
\* it raises it by one and leaves the ids already given out in place.
C16_IdsDenseAndCounterMonotone ==
    [][/\ \A k \in ItemIds :
            marketItemIdToMarketItem'[k].marketItemId =
              IF k \in 1..marketItemIdCounter' THEN k ELSE 0
       /\ marketItemIdCounter' >= marketItemIdCounter
       /\ marketItemIdCounter' # marketItemIdCounter =>
            /\ succeeded("createMarketItem")
            /\ marketItemIdCounter' = marketItemIdCounter + 1
            /\ lastCall'.ret = marketItemIdCounter'
       /\ \A k \in ItemRange :
            marketItemIdToMarketItem'[k].marketItemId =
              marketItemIdToMarketItem[k].marketItemId]_vars

\* C16 witness: two items were created, and afterwards one was sold and a
\* further call was rejected.
C16_Witness ==
    /\ marketItemIdCounter = 2
    /\ marketItemIdToMarketItem[1].marketItemId = 1
    /\ marketItemIdToMarketItem[2].marketItemId = 2
    /\ tokensSoldCounter >= 1
    /\ lastCall.reverted

\* The fields of an item that are fixed when it is created.
fixedFields(item) ==
    <<item.marketItemId, item.nftContractAddress, item.tokenId, item.creator,
      item.seller, item.price>>

\* C17: no createMarketSale or cancelMarketItem step changes the seller,
\* creator, tokenId, collection address or price of any item, and no
\* createMarketItem step changes an item created before; a successful sale
\* changes only owner and sold of the targeted item and the sold counter, a
\* successful cancel only owner and canceled of the targeted item and the
\* canceled counter.
C17_SaleAndCancelTouchOnlyOutcomeOfTarget ==
    [][/\ \A k \in ItemIds :
            (k \in ItemRange \/ lastCall'.op # "createMarketItem") =>
              fixedFields(marketItemIdToMarketItem'[k]) =
                fixedFields(marketItemIdToMarketItem[k])
       /\ succeeded("createMarketSale") =>
            /\ marketItemIdCounter' = marketItemIdCounter
            /\ tokensCanceledCounter' = tokensCanceledCounter
            /\ \A sender \in Callers, value \in Values, nft \in Collections,
                  id \in ItemIds :
                  createMarketSale(sender, value, nft, id) =>
                    /\ \A k \in ItemIds \ {id} :
                          marketItemIdToMarketItem'[k] =
                            marketItemIdToMarketItem[k]
                    /\ marketItemIdToMarketItem'[id].canceled =
                         marketItemIdToMarketItem[id].canceled
       /\ succeeded("cancelMarketItem") =>
            /\ marketItemIdCounter' = marketItemIdCounter
            /\ tokensSoldCounter' = tokensSoldCounter
            /\ \A sender \in Callers, nft \in Collections, id \in ItemIds :
                  cancelMarketItem(sender, nft, id) =>
                    /\ \A k \in ItemIds \ {id} :
                          marketItemIdToMarketItem'[k] =
                            marketItemIdToMarketItem[k]
                    /\ marketItemIdToMarketItem'[id].sold =
                         marketItemIdToMarketItem[id].sold]_vars

\* C17 witness: of two items one was sold to a buyer other than its seller
\* and the other canceled, both keeping the seller and price they were
\* created with.
C17_Witness ==
    /\ marketItemIdCounter = 2
    /\ marketItemIdToMarketItem[1].sold
    /\ marketItemIdToMarketItem[1].owner # marketItemIdToMarketItem[1].seller
    /\ marketItemIdToMarketItem[1].seller \in Callers
    /\ marketItemIdToMarketItem[1].price > 0
    /\ marketItemIdToMarketItem[2].canceled
    /\ marketItemIdToMarketItem[2].price > 0

\* C18: a createMarketItem call whose custody transfer the collection
\* rejects does not succeed, and a rejected createMarketItem leaves the
\* counter, the stored items, token custody and every balance (the listing
\* fee included) as they were before the call.
C18_RejectedTransferRevertsCreate ==
    [][lastCall'.op = "createMarketItem" =>
        /\ lastCall'.reverted =>
             /\ UNCHANGED ledger
             /\ marketItemIdToMarketItem'[nextMarketItemId] =
                  marketItemIdToMarketItem[nextMarketItemId]
             /\ balance'[Mkt] = balance[Mkt]
        /\ ~lastCall'.reverted =>
             \A sender \in Callers, value \in Values, nft \in Collections,
                tokenId \in TokenIds, price \in Prices, approved \in BOOLEAN :
                ~transferFromOk(tokenHolder, nft, sender, Mkt, tokenId,
                                approved) =>
                  ~createMarketItem(sender, value, nft, tokenId, price,
                                    approved)]_vars

\* C18 witness: a createMarketItem call that passed the price and fee checks
\* was rejected by the collection, and the marketplace holds no fee for it.
C18_Witness ==
    /\ lastCall.op = "createMarketItem"
    /\ lastCall.error = "ERC721: transfer rejected"
    /\ marketItemIdCounter = 1
    /\ marketItemIdToMarketItem[2] = emptyMarketItem
    /\ balance[Mkt] <= listingFee

\* C19: every call back into createMarketItem, createMarketSale or
\* cancelMarketItem made while one of them is in progress (from the seller
\* payment, the fee payment or the token transfer) is rejected and starts
\* nothing, and never are two of these operations in progress at once.
C19_NestedCallRejected ==
    [][/\ Len(callStack') <= 1
       /\ attempts' = attempts + 1 =>
            /\ lastCall'.reverted
            /\ lastCall'.error = "ReentrancyGuardReentrantCall"
            /\ lastCall'.op \in Operations
            /\ UNCHANGED <<ledger, status, callStack>>
            /\ status = "ENTERED"]_vars

\* C19 witness: inside the token transfer of a sale, after its seller was
\* paid, a call back into the marketplace has just been rejected while the
\* sale is still in progress.
C19_Witness ==
    /\ Len(callStack) = 1
    /\ callStack[1].op = "createMarketSale"
    /\ callStack[1].calls = 2
    /\ callStack[1].inCallee
    /\ attempts >= 1
    /\ lastCall.error = "ReentrancyGuardReentrantCall"
    /\ lastCall.op = "cancelMarketItem"

\* What C20 asks of a result: exactly the stored items with the zero address
\* as owner, each once, ascending by id, none of them an empty entry.
exactlyZeroOwnerItems(items) ==
    /\ \A k \in 1..Len(items) :
          /\ items[k] # emptyMarketItem
          /\ items[k].marketItemId \in ItemRange
          /\ items[k] = marketItemIdToMarketItem[items[k].marketItemId]
          /\ items[k].owner = Zero
    /\ \A k, l \in 1..Len(items) :
          k < l => items[k].marketItemId < items[l].marketItemId
    /\ \A i \in ItemRange :
          marketItemIdToMarketItem[i].owner = Zero =>
            \E k \in 1..Len(items) : items[k].marketItemId = i

\* C20: fetchAvailableMarketItems returns exactly the stored items whose
\* owner is the zero address, each once, in ascending id order and without
\* empty entries.
C20_FetchReturnsExactlyZeroOwnerItems ==
    /\ ~fetchAvailableMarketItems.reverted
    /\ exactlyZeroOwnerItems(fetchAvailableMarketItems.items)

\* ----------------------------------------- fetchMarketItemsByAddressProperty
\* Lines 219-221: equality of the keccak256 hashes of the two strings.
compareStrings(a, b) == a = b

\* A faulty getMarketItemAddressByProperty: the seller is returned for
\* either property.
getMarketItemAddressIgnoringProperty(item, property) ==
    IF ~(compareStrings(property, "seller") \/ compareStrings(property, "owner"))
      THEN [reverted |-> TRUE, value |-> Zero]
    ELSE [reverted |-> FALSE, value |-> item.seller]

\* Lines 229-240.
getMarketItemAddressByProperty(item, property) ==
    IF ~(compareStrings(property, "seller") \/ compareStrings(property, "owner"))
      THEN [reverted |-> TRUE, value |-> Zero]
    ELSE [reverted |-> FALSE,
          value |-> IF compareStrings(property, "seller") THEN item.seller
                    ELSE item.owner]

\* The first loop (lines 277-282) over the items 1..n: the number of matches.
RECURSIVE countByAddressProperty(_, _, _)
countByAddressProperty(n, property, sender) ==
    IF n = 0 THEN 0
    ELSE countByAddressProperty(n - 1, property, sender) +
         (IF getMarketItemAddressByProperty(marketItemIdToMarketItem[n],
                                            property).value # sender
            THEN 0 ELSE 1)

\* The second loop (lines 286-292) over the items 1..n: the items written,
\* in the order they are written.
RECURSIVE scanByAddressProperty(_, _, _)
scanByAddressProperty(n, property, sender) ==
    IF n = 0 THEN <<>>
    ELSE IF getMarketItemAddressByProperty(marketItemIdToMarketItem[n],
                                           property).value # sender
           THEN scanByAddressProperty(n - 1, property, sender)
    ELSE Append(scanByAddressProperty(n - 1, property, sender),
                marketItemIdToMarketItem[n])

\* Lines 264-295 called by sender: reverted for a property other than
\* "seller" and "owner" or on a write past the end of the array; slots the
\* second loop never writes stay empty.
fetchMarketItemsByAddressProperty(addressProperty, sender) ==
    LET itemCount == countByAddressProperty(marketItemIdCounter,
                                            addressProperty, sender)
        found == scanByAddressProperty(marketItemIdCounter, addressProperty,
                                       sender)
    IN IF ~(compareStrings(addressProperty, "seller")
            \/ compareStrings(addressProperty, "owner"))
         THEN [reverted |-> TRUE, items |-> <<>>]
       ELSE IF Len(found) > itemCount
         THEN [reverted |-> TRUE, items |-> <<>>]
       ELSE [reverted |-> FALSE,
             items |-> found \o [k \in 1..(itemCount - Len(found))
                                   |-> emptyMarketItem]]

\* Lines 246-248.
fetchSellingMarketItems(sender) ==
    fetchMarketItemsByAddressProperty("seller", sender)

\* Lines 254-256.
fetchOwnedMarketItems(sender) ==
    fetchMarketItemsByAddressProperty("owner", sender)

\* Property strings a caller may pass.
Properties == {"seller", "owner", "Seller", "creator", ""}

\* The ids in 1..counter satisfying a condition on the stored item, listed
\* as a result is asked to list them: each once, ascending, as stored.
listsExactly(items, ids) ==
    /\ Len(items) = Cardinality(ids)
    /\ \A k \in 1..Len(items) :
          /\ items[k].marketItemId \in ids
          /\ items[k] = marketItemIdToMarketItem[items[k].marketItemId]
    /\ \A k, l \in 1..Len(items) :
          k < l => items[k].marketItemId < items[l].marketItemId

\* C21: for every caller fetchSellingMarketItems returns exactly the stored
\* items whose seller is the caller and fetchOwnedMarketItems exactly those
\* whose owner is the caller, ascending by id and whatever their sold and
\* canceled flags; fetchMarketItemsByAddressProperty rejects every property
\* string other than "seller" and "owner".
C21_FetchByAddressProperty ==
    \A caller \in Callers :
       /\ ~fetchSellingMarketItems(caller).reverted
       /\ listsExactly(fetchSellingMarketItems(caller).items,
                       {i \in ItemRange :
                           marketItemIdToMarketItem[i].seller = caller})
       /\ ~fetchOwnedMarketItems(caller).reverted
       /\ listsExactly(fetchOwnedMarketItems(caller).items,
                       {i \in ItemRange :
                           marketItemIdToMarketItem[i].owner = caller})
       /\ \A p \in Properties \ {"seller", "owner"} :
             fetchMarketItemsByAddressProperty(p, caller).reverted

\* C21 witness: alice listed two items, bob bought the first and alice
\* canceled the second; alice's selling list holds both, bob's owned list
\* the sold one, alice's owned list the canceled one.
C21_Witness ==
    /\ marketItemIdCounter = 2
    /\ marketItemIdToMarketItem[1].sold
    /\ marketItemIdToMarketItem[2].canceled
    /\ Len(fetchSellingMarketItems("alice").items) = 2
    /\ fetchOwnedMarketItems("bob").items = <<marketItemIdToMarketItem[1]>>
    /\ fetchOwnedMarketItems("alice").items = <<marketItemIdToMarketItem[2]>>

\* C26: for every item that is neither sold nor canceled, an item of token
\* id 0 included, cancelMarketItem called by the stored seller with the
\* item's collection succeeds.
C26_SellerCanCancelActiveListing ==
    \A i \in ItemRange :
       isActive(marketItemIdToMarketItem[i]) =>
         cancelMarketItemError(marketItemIdToMarketItem[i].seller,
                               marketItemIdToMarketItem[i].nftContractAddress,
                               i) = ""

\* C27: a successful createMarketSale or cancelMarketItem on a created item
\* moves the token of the item's stored collection and tokenId out of the
\* marketplace, and a call naming another collection than the stored one
\* does not succeed (so it changes no owner, sold or canceled field and pays
\* no seller).
C27_OnlyStoredCollectionTokenMoves ==
    [][/\ succeeded("createMarketSale") =>
            \A sender \in Callers, value \in Values, nft \in Collections,
               id \in ItemRange :
               createMarketSale(sender, value, nft, id) =>
                 /\ nft = marketItemIdToMarketItem[id].nftContractAddress
                 /\ holderOf(tokenHolder,
                             marketItemIdToMarketItem[id].nftContractAddress,
                             marketItemIdToMarketItem[id].tokenId) = Mkt
                 /\ holderOf(tokenHolder',
                             marketItemIdToMarketItem[id].nftContractAddress,
                             marketItemIdToMarketItem[id].tokenId) = sender
       /\ succeeded("cancelMarketItem") =>
            \A sender \in Callers, nft \in Collections, id \in ItemRange :
               cancelMarketItem(sender, nft, id) =>
                 /\ nft = marketItemIdToMarketItem[id].nftContractAddress
                 /\ holderOf(tokenHolder,
                             marketItemIdToMarketItem[id].nftContractAddress,
                             marketItemIdToMarketItem[id].tokenId) = Mkt
                 /\ holderOf(tokenHolder',
                             marketItemIdToMarketItem[id].nftContractAddress,
                             marketItemIdToMarketItem[id].tokenId) = sender]_vars

\* C28: after every step the marketplace's balance is listingFee times
\* (items created - sold counter), and a successful sale forwards the fee of
\* a created item whose fee was not forwarded before (the item was not yet
\* sold); no sale fails for lack of balance in the marketplace.
C28_FeeHeldAndForwardedOncePerItem ==
    [][/\ balance'[Mkt] =
            listingFee * (marketItemIdCounter' - tokensSoldCounter')
       /\ lastCall'.error # "insufficient balance"
       /\ succeeded("createMarketSale") =>
            \A sender \in Callers, value \in Values, nft \in Collections,
               id \in ItemIds :
               createMarketSale(sender, value, nft, id) =>
                 /\ id \in ItemRange
                 /\ ~marketItemIdToMarketItem[id].sold]_vars

\* C24: whenever loadNFTs would answer from the cache, forceRefresh is
\* false, the cache was written for the connected account, it is younger
\* than CACHE_EXPIRY_MS, and the cached list is the list of that account.
C24_CacheServedOnlyToItsAccount ==
    \A forceRefresh \in BOOLEAN :
       (marketplaceContract # Null /\ nftContract # Null /\ account # Null
        /\ cacheHit(forceRefresh)) =>
         /\ ~forceRefresh
         /\ nftCache.account = account
         /\ now - nftCache.timestamp < CACHE_EXPIRY_MS
         /\ nftCache.nfts.owner = account

\* C25: a handleAccountsChanged, handleConnect or handleDisconnect that
\* started while manuallyDisconnected was set never sets isConnected or an
\* account.
C25_NoReconnectAfterManualDisconnect ==
    [][\A t \in tasks :
         (t.afterDisconnect /\ (GetSigner(t) \/ InitializeContracts(t))) =>
           /\ isConnected' = isConnected
           /\ account' = account]_vars

\* C30: whenever isConnected is false, marketplaceContract and nftContract
\* are null.
C30_DisconnectedHasNoContracts ==
    ~isConnected => (marketplaceContract = Null /\ nftContract = Null)

\* ------------------------------------------- front end: the hook and pages
\* The accounts that use the pages, each connected with its handles set.
ClientUsers == {"alice", "bob"}

\* What a page handler asked the hook for: the function, whether a
\* marketplace transaction was sent and for which item, and how it ended.
Action(fn, submitted, marketItemId, outcome) ==
    [fn |-> fn, submitted |-> submitted, marketItemId |-> marketItemId,
     outcome |-> outcome]

\* How a transaction that was sent ended.
txOutcome(receipt) == IF receipt.reverted THEN "reverted" ELSE "ok"

\* buyNFT(tokenId, price) of the hook (part_000 lines 498-541) for the
\* connected account user, value being the payment the price parses to and
\* refused whether the wallet refuses to sign; every error is caught.
buyNFT(user, tokenId, value, refused) ==
    LET found == getLatestMarketItemByTokenId(tokenId)
    IN IF ~found[2]
         THEN /\ lastAction' = Action("buyNFT", FALSE, 0, "not listed")
              /\ UNCHANGED <<ledger, lastCall>>
       ELSE IF refused
         THEN /\ lastAction' = Action("buyNFT", FALSE, 0, "refused")
              /\ UNCHANGED <<ledger, lastCall>>
       ELSE /\ createMarketSale(user, value, NFT_COLLECTION_ADDRESS,
                                 found[1].marketItemId)
            /\ lastAction' = Action("buyNFT", TRUE, found[1].marketItemId,
                                    txOutcome(lastCall'))

\* unlistNFT(tokenId) of the hook (part_000 lines 543-581).
unlistNFT(user, tokenId, refused) ==
    LET found == getLatestMarketItemByTokenId(tokenId)
    IN IF ~found[2]
         THEN /\ lastAction' = Action("unlistNFT", FALSE, 0, "not listed")
              /\ UNCHANGED <<ledger, lastCall>>
       ELSE IF refused
         THEN /\ lastAction' = Action("unlistNFT", FALSE, 0, "refused")
              /\ UNCHANGED <<ledger, lastCall>>
       ELSE /\ cancelMarketItem(user, NFT_COLLECTION_ADDRESS,
                                 found[1].marketItemId)
            /\ lastAction' = Action("unlistNFT", TRUE, found[1].marketItemId,
                                    txOutcome(lastCall'))

\* listNFT(tokenId, price) of the hook (part_000 lines 447-496): approve,
\* which the collection rejects for anyone but the holder, then
\* createMarketItem with the listing fee.
listNFT(user, tokenId, price, refused) ==
    IF refused
      THEN /\ lastAction' = Action("listNFT", FALSE, 0, "refused")
           /\ UNCHANGED <<ledger, lastCall>>
    ELSE IF holderOf(tokenHolder, NFT_COLLECTION_ADDRESS, tokenId) # user
      THEN /\ lastAction' = Action("listNFT", FALSE, 0, "reverted")
           /\ UNCHANGED <<ledger, lastCall>>
    ELSE /\ createMarketItem(user, listingFee, NFT_COLLECTION_ADDRESS,
                              tokenId, price, TRUE)
         /\ lastAction' = Action("listNFT", TRUE, lastCall'.ret,
                                 txOutcome(lastCall'))

\* handleBuy of the home page (page.tsx lines 149-158).
handleBuy(user, tokenId, value, refused) ==
    /\ tokenId \in homeNfts
    /\ buyNFT(user, tokenId, value, refused)
    /\ homeNfts' = homeNfts \ {tokenId}
    /\ UNCHANGED <<myNfts, success, pending, error>>

\* handleList of the My NFTs page (part_007 lines 208-221).
handleList(user, tokenId, price, refused) ==
    /\ tokenId \in DOMAIN myNfts
    /\ listNFT(user, tokenId, price, refused)
    /\ myNfts' = [myNfts EXCEPT ![tokenId] = TRUE]
    /\ UNCHANGED <<homeNfts, success, pending, error>>

\* handleUnlist of the My NFTs page (part_007 lines 223-236).
handleUnlist(user, tokenId, refused) ==
    /\ tokenId \in DOMAIN myNfts
    /\ unlistNFT(user, tokenId, refused)
    /\ myNfts' = [myNfts EXCEPT ![tokenId] = FALSE]
    /\ UNCHANGED <<homeNfts, success, pending, error>>

\* What createNFT does with the way its uploads and its mint end (part_000
\* lines 310-445): it returns or throws, with the message it throws.
createNFT(ending) ==
    IF ending = "minted" THEN [thrown |-> FALSE, message |-> ""]
    ELSE IF ending = "timed out" THEN [thrown |-> FALSE, message |-> ""]
    ELSE [thrown |-> TRUE, message |-> ending]

\* The ways the uploads and the mint transaction of createNFT can end.
CreateEndings == {"minted", "timed out", "Failed to upload image",
                  "user rejected"}

\* handleSubmit of the create page (part_006 lines 45-81), by how the mint
\* ends; error.message.includes("timed out") is equality with that ending.
handleSubmit(ending) ==
    LET result == createNFT(ending)
    IN /\ IF ~result.thrown
            THEN /\ success' = TRUE
                 /\ pending' = FALSE
                 /\ error' = Null
          ELSE IF result.message = "timed out"
            THEN /\ pending' = TRUE
                 /\ error' = Null
                 /\ UNCHANGED success
          ELSE /\ pending' = FALSE
               /\ error' = result.message
               /\ UNCHANGED success
       /\ lastAction' = Action("createNFT", FALSE, 0, ending)
       /\ UNCHANGED <<ledger, lastCall, homeNfts, myNfts>>

\* The home page loads (page.tsx lines 64-113 with loadMarketplaceItems,
\* part_000 lines 30-132): the tokens of the available items, none when
\* fetchAvailableMarketItems fails.
LoadMarketplaceItems ==
    /\ homeNfts' =
         IF fetchAvailableMarketItems.reverted THEN {}
         ELSE {fetchAvailableMarketItems.items[k].tokenId :
                  k \in 1..Len(fetchAvailableMarketItems.items)}
    /\ lastAction' = Action("loadMarketplaceItems", FALSE, 0, "ok")
    /\ UNCHANGED <<ledger, lastCall, myNfts, success, pending, error>>

\* The My NFTs page loads for the connected account (part_000 lines
\* 154-274): the tokens the account holds, isListed from the latest item.
LoadMyNFTs(user) ==
    /\ myNfts' =
         [t \in getTokensOwnedByMe(user).tokenIds |->
            LET found == getLatestMarketItemByTokenId(t)
            IN found[2] /\ ~found[1].sold /\ ~found[1].canceled]
    /\ lastAction' = Action("loadNFTs", FALSE, 0, "ok")
    /\ UNCHANGED <<ledger, lastCall, homeNfts, success, pending, error>>

\* The create page is opened again.
OpenCreatePage ==
    /\ success' = FALSE
    /\ pending' = FALSE
    /\ error' = Null
    /\ lastAction' = Action("mount", FALSE, 0, "ok")
    /\ UNCHANGED <<ledger, lastCall, homeNfts, myNfts>>

ClientNext ==
    \/ \E user \in ClientUsers, tokenId \in TokenIds, value \in Values,
          refused \in BOOLEAN :
          /\ handleBuy(user, tokenId, value, refused)
          /\ UNCHANGED <<guardVars, web3Vars>>
    \/ \E user \in ClientUsers, tokenId \in TokenIds, price \in Prices,
          refused \in BOOLEAN :
          /\ handleList(user, tokenId, price, refused)
          /\ UNCHANGED <<guardVars, web3Vars>>
    \/ \E user \in ClientUsers, tokenId \in TokenIds, refused \in BOOLEAN :
          /\ handleUnlist(user, tokenId, refused)
          /\ UNCHANGED <<guardVars, web3Vars>>
    \/ \E ending \in CreateEndings :
          /\ handleSubmit(ending)
          /\ UNCHANGED <<guardVars, web3Vars>>
    \/ LoadMarketplaceItems /\ UNCHANGED <<guardVars, web3Vars>>
    \/ \E user \in ClientUsers :
          LoadMyNFTs(user) /\ UNCHANGED <<guardVars, web3Vars>>
    \/ OpenCreatePage /\ UNCHANGED <<guardVars, web3Vars>>

SpecClient == Init /\ [][ClientNext]_vars
\* C22: a buy, list or unlist that failed (refused by the wallet, rejected
\* by the ledger, or not sent) leaves the home page's list and the My NFTs
\* page's isListed flags as they were.
C22_FailedTransactionKeepsPageState ==
    [][(lastAction'.fn \in {"buyNFT", "listNFT", "unlistNFT"}
        /\ lastAction'.outcome # "ok") =>
          /\ homeNfts' = homeNfts
          /\ myNfts' = myNfts]_vars

\* C23: when the mint of createNFT ends with a "timed out" error, the create
\* page ends with pending = true, success = false and no error.
C23_TimedOutMintEndsPending ==
    [][(lastAction'.fn = "createNFT" /\ lastAction'.outcome = "timed out") =>
          /\ pending'
          /\ ~success'
          /\ error' = Null]_vars

\* C29: buyNFT and unlistNFT send createMarketSale or cancelMarketItem only
\* for an item that is neither sold nor canceled when it is looked up.
C29_ClientSubmitsOnlyForActiveItem ==
    [][(lastAction'.fn \in {"buyNFT", "unlistNFT"} /\ lastAction'.submitted) =>
          isActive(marketItemIdToMarketItem[lastAction'.marketItemId])]_vars

====
